---------------------------- MODULE Spec2Model ----------------------------
(***************************************************************************)
(* Anti-bot challenge/response servers of the repository:                  *)
(*   src/5.js             the trust-ledger server  ("NEXUS", rolling       *)
(*                        secret, per-fingerprint trust memory)            *)
(*   src/unnamed/part_001 the in-memory server     (secureAntiBot.js)      *)
(*   src/unnamed/part_002 the Redis-backed server  (server.js)             *)
(*                                                                         *)
(* Conventions of the model                                                *)
(*   - Date.now() is the variable now, in milliseconds since process       *)
(*     start; it moves only in Tick.                                       *)
(*   - Strings are sequences of small integers.  The empty string, the     *)
(*     number 0 and undefined are the falsy values of a request field:     *)
(*     a missing fingerprint or nonce is 0, a missing counter is -1, a     *)
(*     missing hash or signature is << >>.                                 *)
(*   - crypto.randomBytes yields a value never produced before.            *)
(*   - sha256 and the HMAC are injective encodings of their input: what    *)
(*     the model keeps of them is that equal digests mean equal inputs,    *)
(*     that the number of leading zeros is a fixed function of the input,  *)
(*     and that an HMAC digest has a fixed length.                         *)
(*   - A score is a fixed-point number, ScoreUnit units to 1.0, products   *)
(*     rounded down.                                                       *)
(***************************************************************************)
EXTENDS Integers, Sequences, FiniteSets, TLC

(************************* bounds of the model *****************************)
\* nonces (server-issued or client-invented) are 1..MaxNonce
MaxNonce == 2
\* requester addresses are 1..MaxIp
MaxIp == 2
\* How many challenges the in-memory server issues
MaxChallenge == 2
\* How many challenges the store-backed server issues
MaxChallengeR == 1
\* How many requests are suspended on the store at the same time
MaxInflight == 2
\* The largest input the difficulty functions are applied to
MaxDifficultyInput == 220
\* How many times in a row decayTrust is called on one state
MaxDecayCalls == 3
\* How many challenges one identity asks for in a burst
MaxBurst == 32
\* How many times in a row computeRisk is invoked
MaxRiskCalls == 3
\* the most signals a client engine counts
MaxSignals == 2

(********************* constants of src/5.js *******************************)
TOKEN_TTL == 60000
NONCE_TTL == 120000
BASE_DIFFICULTY == 3
ROTATE_INTERVAL == 600000
DECAY_WINDOW == 600000
BURST_WINDOW == 10000
BURST_MAX == 30
DIFFICULTY_CAP == 3
SOFT_BAN_RISK == 3
DENY_RISK == 5
ScoreUnit == 1000

\* fingerprint hashes a client of src/5.js sends
Fingerprints == {1}
Nonces == 1..MaxNonce
\* PoW counters a client tries
Counters == {0, 1}
IPs == 1..MaxIp
\* User-Agent headers: a browser's, and one both patterns of computeRisk match.
Browsers == {"Mozilla/5.0"}
UserAgents == Browsers \cup {"python-requests HeadlessChrome"}

\* The clock readings the model of src/5.js visits: an instant t = 0 or 1, the
\* instants t + 1, t + TOKEN_TTL and t + TOKEN_TTL + 1 after it, an instant
\* later than NONCE_TTL, and the same around the first firing of the rotation
\* timer.
Times ==
    {0, 1, TOKEN_TTL + 1, ROTATE_INTERVAL, ROTATE_INTERVAL + TOKEN_TTL + 1}

Max(a, b) == IF a >= b THEN a ELSE b
Min(a, b) == IF a <= b THEN a ELSE b

VARIABLES
    now,            \* Date.now()
    SECRET,         \* 5.js: the active signing secret
    SECRET_VERSION, \* 5.js
    nextRotation,   \* 5.js: when the setInterval callback is due next
    usedNonces,     \* 5.js: Map nonce -> time of use
    trustMemory,    \* 5.js: Map fingerprint -> trust state
    issued,         \* history: nonce or challenge -> when (src/5.js: and
                    \* with which difficulty; part_001: and whether a
                    \* /verify has named it; part_002: and to which IP)
                    \* /challenge issued it
    solved,         \* history: the submissions that passed the PoW and
                    \* replay checks (part_002: that were given a token)
    held,           \* the token the client received last, or NoToken
    obs,            \* what the last request was, for the properties
    resp,           \* the last response
    activeChallenges, \* part_001: Map challenge -> time of issue
    usedNoncesM,    \* part_001: Set of nonces
    redis,          \* part_002: the store, key -> [val, exp]
    queue,          \* part_002: requests awaiting a store reply, in order
    engine,         \* which client engine runs: 3.js, 4.js or part_000
    Shield,         \* client (state in 3.js and 4.js): score, signals,
                    \* flags, workerIntegrity
    responded,      \* client: the worker has replied
    penalized,      \* history: flag -> weight of its first penalize call
    again           \* history: the flags the last callback penalized that
                    \* were set before it ran

nexusVars == <<SECRET, SECRET_VERSION, nextRotation, usedNonces, trustMemory>>
memVars == <<activeChallenges, usedNoncesM>>
redisVars == <<redis, queue>>
clientVars == <<engine, Shield, responded, penalized, again>>

vars == <<now, nexusVars, memVars, redisVars, clientVars, issued, solved, held,
          obs, resp>>

\* A client engine before any of its checks has run
ClientStart ==
    /\ Shield = [score |-> 0, signals |-> 0, flags |-> {},
                 workerIntegrity |-> FALSE]
    /\ penalized = << >>
    /\ again = {}
    /\ responded = FALSE

(***************************** utilities ***********************************)

\* The digest's leading-zero count is a fixed function of the hashed string.
RECURSIVE SumSeq(_)
SumSeq(s) == IF s = << >> THEN 0 ELSE Head(s) + SumSeq(Tail(s))

LeadingZeros(data) == SumSeq(data) % 8

Zeros(n) == [i \in 1..n |-> 0]

\* sha256(data), hex: the leading zeros, then a nonzero digit, then the rest,
\* which here spells the input back (injective).
sha256(data) == Zeros(LeadingZeros(data)) \o <<9>> \o data

\* hash.startsWith("0".repeat(d))
StartsWithZeros(hash, d) ==
    /\ Len(hash) >= d
    /\ \A i \in 1..d : hash[i] = 0

\* fingerprintHash + nonce + counter
PowInput(fingerprintHash, nonce, counter) == <<fingerprintHash, nonce, counter>>

\* JSON.stringify(payload) of a 5.js token payload
Stringify(payload) ==
    <<payload.fingerprintHash, payload.ip, payload.exp, payload.v>>

\* createHmac("sha256", secret).update(text).digest("hex"): fixed length
Hmac(secret, text) == <<secret>> \o text

sign(payload) == Hmac(SECRET, Stringify(payload))

\* crypto.timingSafeEqual throws on buffers of different length
timingSafeEqual(a, b) ==
    IF Len(a) # Len(b) THEN "throws" ELSE IF a = b THEN "true" ELSE "false"

verifySignature(payload, signature) == timingSafeEqual(signature, sign(payload))

\* A cleanup that forgets every nonce.
cleanNonces_All(map, t) == << >>

\* cleanNonces(): the map without the entries older than NONCE_TTL
cleanNonces(map, t) ==
    LET keep == {n \in DOMAIN map : ~(t - map[n] > NONCE_TTL)}
    IN  [n \in keep |-> map[n]]

\* getTrustState(fingerprint): the memory, with the entry created if absent
getTrustState(mem, fingerprint, t) ==
    IF fingerprint \in DOMAIN mem THEN mem
    ELSE [f \in DOMAIN mem \cup {fingerprint} |->
            IF f = fingerprint
            THEN [score |-> 0, lastSeen |-> t, requestTimes |-> << >>]
            ELSE mem[f]]

\* a / b rounded up, for b > 0
CeilDiv(a, b) == (a + b - 1) \div b

\* score * factor / DECAY_WINDOW rounded down, computed as
\* score - ceil(score * (DECAY_WINDOW - factor) / DECAY_WINDOW), the product
\* taken in two parts (the seconds and the milliseconds of the difference) to
\* stay within 32-bit arithmetic.
MulDiv(score, factor) ==
    LET d == DECAY_WINDOW - factor
        seconds == score * (d \div 1000)
        millis == score * (d % 1000)
    IN  score - CeilDiv(seconds + CeilDiv(millis, 1000), DECAY_WINDOW \div 1000)

\* A decay that adds suspicion.
decayTrust_Grow(state, t) ==
    [state EXCEPT !.score = @ + ScoreUnit, !.lastSeen = t]

\* decayTrust(state): score *= Math.max(0.5, 1 - delta / 600000)
decayTrust(state, t) ==
    LET delta == t - state.lastSeen
        factor == Max(DECAY_WINDOW \div 2, DECAY_WINDOW - delta)
    IN  [state EXCEPT !.score = MulDiv(@, factor), !.lastSeen = t]

\* computeRisk(req, fingerprint): the memory after the call; the value
\* returned is the score of the fingerprint's entry in it.
UaPenalty(ua) ==
    (IF ua \in {"HeadlessChrome", "python-requests HeadlessChrome"}
     THEN (6 * ScoreUnit) \div 10 ELSE 0)
    + (IF ua \in {"curl/8.5", "python-requests HeadlessChrome"}
       THEN (6 * ScoreUnit) \div 10 ELSE 0)

SelectWindow(times, t) == SelectSeq(times, LAMBDA x : t - x < BURST_WINDOW)

\* A computeRisk that overwrites the score with the penalty.
computeRisk_NoAdd(mem, fingerprint, ua, t) ==
    LET mem1 == getTrustState(mem, fingerprint, t)
        st1 == decayTrust(mem1[fingerprint], t)
        times == SelectWindow(Append(st1.requestTimes, t), t)
        score == UaPenalty(ua)
                 + (IF Len(times) > BURST_MAX THEN (5 * ScoreUnit) \div 10 ELSE 0)
        st2 == [st1 EXCEPT !.requestTimes = times, !.score = score]
    IN  [mem1 EXCEPT ![fingerprint] = st2]

computeRisk(mem, fingerprint, ua, t) ==
    LET mem1 == getTrustState(mem, fingerprint, t)
        st1 == decayTrust(mem1[fingerprint], t)
        times == SelectWindow(Append(st1.requestTimes, t), t)
        score == UaPenalty(ua)
                 + (IF Len(times) > BURST_MAX THEN (5 * ScoreUnit) \div 10 ELSE 0)
        st2 == [st1 EXCEPT !.requestTimes = times, !.score = @ + score]
    IN  [mem1 EXCEPT ![fingerprint] = st2]

\* A discount that forgives nothing.
Discount_None(score) == score

\* state.score *= 0.5
Discount(score) == score \div 2

\* The ledger after a submission that passed the proof-of-work checks:
\* computeRisk, then the discount unless the request ends at `risk > 3`
Solved(mem, fingerprint, ua, t) ==
    LET mem2 == computeRisk(mem, fingerprint, ua, t) IN
    IF mem2[fingerprint].score > SOFT_BAN_RISK * ScoreUnit
    THEN mem2
    ELSE [mem2 EXCEPT ![fingerprint].score = Discount(@)]

\* A replay check that comes after the trust state is fetched.
AtReplayCheck_Fetched(mem, fingerprint, t) == getTrustState(mem, fingerprint, t)

\* The ledger when /verify answers 'Replay detected': the check precedes
\* getTrustState, so nothing has touched it
AtReplayCheck(mem, fingerprint, t) == mem

\* The score the ledger holds for a fingerprint; 0 if it holds none
ScoreOf(mem, fingerprint) ==
    IF fingerprint \in DOMAIN mem THEN mem[fingerprint].score ELSE 0

\* A difficulty that is not capped.
Difficulty_NoCap(state) == BASE_DIFFICULTY + (state.score \div ScoreUnit)

\* BASE_DIFFICULTY + Math.min(3, Math.floor(state.score))
Difficulty(state) ==
    BASE_DIFFICULTY + Min(DIFFICULTY_CAP, state.score \div ScoreUnit)

(****************************** responses **********************************)
NoPayload == [fingerprintHash |-> 0, ip |-> 0, exp |-> 0, v |-> 0]
NoToken ==
    [payload |-> NoPayload, signature |-> << >>, at |-> 0, stale |-> FALSE]
NoObs == [ep |-> "none"]

\* A response: the HTTP status, what the body is, its error text and its data.
Reply(ep, status, kind, data) ==
    [ep |-> ep, status |-> status, kind |-> kind, error |-> "", data |-> data]

Error(ep, status, text) ==
    [ep |-> ep, status |-> status, kind |-> "error", error |-> text,
     data |-> << >>]

(************************** src/5.js: state ********************************)
Init ==
    /\ now = 0
    /\ SECRET = 1
    /\ SECRET_VERSION = 1
    /\ nextRotation = ROTATE_INTERVAL
    /\ usedNonces = << >>
    /\ trustMemory = << >>
    /\ issued = << >>
    /\ solved = {}
    /\ held = NoToken
    /\ obs = NoObs
    /\ resp = Reply("none", 0, "none", << >>)
    /\ activeChallenges = << >>
    /\ usedNoncesM = {}
    /\ engine = "3.js"
    /\ ClientStart
    /\ redis = << >>
    /\ queue = << >>

\* Time passes; a due rotation timer fires before the clock moves past it.
Idle == resp.ep = "none"

Tick(t) ==
    /\ Idle
    /\ t > now
    /\ t <= nextRotation
    /\ now' = t
    /\ UNCHANGED <<SECRET, SECRET_VERSION, nextRotation, usedNonces, trustMemory,
                   issued, solved, held, obs, resp>>
    /\ UNCHANGED <<memVars, redisVars, clientVars>>

\* A rotation that bumps the version and keeps the secret.
Rotate_VersionOnly ==
    /\ Idle
    /\ now = nextRotation
    /\ SECRET_VERSION' = SECRET_VERSION + 1
    /\ nextRotation' = nextRotation + ROTATE_INTERVAL
    /\ held' = IF held = NoToken THEN held ELSE [held EXCEPT !.stale = TRUE]
    /\ UNCHANGED <<now, SECRET, usedNonces, trustMemory, issued, solved, obs,
                   resp>>
    /\ UNCHANGED <<memVars, redisVars, clientVars>>

\* setInterval(() => { SECRET = randomBytes(32); SECRET_VERSION++ }, 600000)
Rotate ==
    /\ Idle
    /\ now = nextRotation
    /\ SECRET' = SECRET + 1
    /\ SECRET_VERSION' = SECRET_VERSION + 1
    /\ nextRotation' = nextRotation + ROTATE_INTERVAL
    /\ held' = IF held = NoToken THEN held ELSE [held EXCEPT !.stale = TRUE]
    /\ UNCHANGED <<now, usedNonces, trustMemory, issued, solved, obs, resp>>
    /\ UNCHANGED <<memVars, redisVars, clientVars>>

\* crypto.randomBytes(16).toString("hex"): a nonce never returned before
FreshNonce == {n \in Nonces : n = Cardinality(DOMAIN issued) + 1}

\* A /verify that holds the client to the difficulty /challenge returned.
RequiredDifficulty_AtIssue(mem, challenges, fingerprintHash, nonce) ==
    IF nonce \in DOMAIN challenges
    THEN challenges[nonce].difficulty
    ELSE Difficulty(mem[fingerprintHash])

\* const dynamicDifficulty in /verify: derived from the state /verify has
\* just fetched, whatever /challenge returned for the nonce
RequiredDifficulty(mem, challenges, fingerprintHash, nonce) ==
    Difficulty(mem[fingerprintHash])

\* app.post("/challenge"), nonce being what crypto.randomBytes(16) returns
\* when the handler gets to call it
ChallengeWith(fingerprintHash, nonce) ==
    LET cleaned == cleanNonces(usedNonces, now)
        mem1 == getTrustState(trustMemory, fingerprintHash, now)
        st == decayTrust(mem1[fingerprintHash], now)
    IN
    /\ Idle
    /\ usedNonces' = cleaned
    /\ obs' = [ep |-> "challenge", fingerprintHash |-> fingerprintHash,
               swept |-> DOMAIN usedNonces \ DOMAIN cleaned,
               before |-> ScoreOf(trustMemory, fingerprintHash)]
    /\ IF fingerprintHash = 0
       THEN /\ resp' = Error("challenge", 400, "Missing fingerprint")
            /\ UNCHANGED <<trustMemory, issued>>
       ELSE /\ trustMemory' = [mem1 EXCEPT ![fingerprintHash] = st]
            /\ issued' = [n \in DOMAIN issued \cup {nonce} |->
                            IF n = nonce
                            THEN [at |-> now, difficulty |-> Difficulty(st)]
                            ELSE issued[n]]
            /\ resp' = Reply("challenge", 200, "challenge",
                              [nonce |-> nonce,
                               difficulty |-> Difficulty(st),
                               version |-> SECRET_VERSION])
    /\ UNCHANGED <<now, SECRET, SECRET_VERSION, nextRotation, solved, held>>
    /\ UNCHANGED <<memVars, redisVars, clientVars>>

Challenge(fingerprintHash) ==
    IF fingerprintHash = 0
    THEN ChallengeWith(fingerprintHash, 0)
    ELSE \E nonce \in FreshNonce : ChallengeWith(fingerprintHash, nonce)

\* A payload whose expiry forgets the token lifetime.
TokenPayload_NoTtl(fingerprintHash, ip, t) ==
    [fingerprintHash |-> fingerprintHash, ip |-> ip,
     exp |-> t, v |-> SECRET_VERSION]

\* The payload of the token /verify signs
TokenPayload(fingerprintHash, ip, t) ==
    [fingerprintHash |-> fingerprintHash, ip |-> ip,
     exp |-> t + TOKEN_TTL, v |-> SECRET_VERSION]

\* app.post("/verify")
Verify(fingerprintHash, nonce, counter, hash, ua, ip) ==
    LET cleaned == cleanNonces(usedNonces, now)
        mem1 == getTrustState(trustMemory, fingerprintHash, now)
        dynamicDifficulty ==
            RequiredDifficulty(mem1, issued, fingerprintHash, nonce)
        mem2 == computeRisk(trustMemory, fingerprintHash, ua, now)
        risk == mem2[fingerprintHash].score
        payload == TokenPayload(fingerprintHash, ip, now)
        used == [n \in DOMAIN cleaned \cup {nonce} |->
                    IF n = nonce THEN now ELSE cleaned[n]]
    IN
    /\ Idle
    /\ obs' = [ep |-> "verify", nonce |-> nonce,
               again |-> <<fingerprintHash, nonce, counter, hash>> \in solved,
               counter |-> counter, hash |-> hash,
               fingerprintHash |-> fingerprintHash,
               swept |-> DOMAIN usedNonces \ DOMAIN cleaned,
               before |-> ScoreOf(trustMemory, fingerprintHash),
               seen |-> mem1[fingerprintHash].lastSeen,
               difficulty |-> dynamicDifficulty,
               risk |-> risk]
    /\ IF fingerprintHash = 0 \/ nonce = 0 \/ counter = -1 \/ hash = << >>
       THEN /\ resp' = Error("verify", 400, "Malformed request")
            /\ usedNonces' = cleaned
            /\ UNCHANGED <<trustMemory, solved>>
       ELSE IF nonce \in DOMAIN cleaned
       THEN /\ resp' = Error("verify", 403, "Replay detected")
            /\ usedNonces' = cleaned
            /\ trustMemory' = AtReplayCheck(trustMemory, fingerprintHash, now)
            /\ UNCHANGED solved
       ELSE IF sha256(PowInput(fingerprintHash, nonce, counter)) # hash
       THEN /\ resp' = Error("verify", 403, "Invalid PoW hash")
            /\ usedNonces' = cleaned
            /\ UNCHANGED <<trustMemory, solved>>
       ELSE IF ~StartsWithZeros(hash, dynamicDifficulty)
       THEN /\ resp' = Error("verify", 403, "PoW difficulty fail")
            /\ usedNonces' = cleaned
            /\ trustMemory' = mem1
            /\ UNCHANGED solved
       ELSE /\ usedNonces' = used
            /\ solved' = solved \cup {<<fingerprintHash, nonce, counter, hash>>}
            /\ trustMemory' = Solved(trustMemory, fingerprintHash, ua, now)
            /\ IF risk > SOFT_BAN_RISK * ScoreUnit
               THEN resp' = Reply("verify", 200, "shadow_throttled", << >>)
               ELSE IF risk > DENY_RISK * ScoreUnit
               THEN resp' = Error("verify", 403, "High risk entity")
               ELSE resp' = Reply("verify", 200, "token",
                                  [payload |-> payload,
                                   signature |-> sign(payload)])
    /\ UNCHANGED <<now, SECRET, SECRET_VERSION, nextRotation, issued, held>>
    /\ UNCHANGED <<memVars, redisVars, clientVars>>

\* What a client can present as a signature for a payload: nothing, the
\* signature it holds, and strings it makes up, of the MAC's length, shorter
\* and longer.
Guess(payload) == Hmac(0, Stringify(payload))

Signatures(payload) ==
    {<< >>, held.signature, Guess(payload),
     SubSeq(Guess(payload), 1, Len(Guess(payload)) - 1),
     Guess(payload) \o <<0>>}

\* The payloads a client can present: none, the one it holds, and one it
\* makes up (the one it holds with a later expiry, if it holds one).
Payloads ==
    {NoPayload, held.payload,
     IF held = NoToken
     THEN [fingerprintHash |-> 1, ip |-> 1, exp |-> now + TOKEN_TTL,
           v |-> SECRET_VERSION]
     ELSE [held.payload EXCEPT !.exp = @ + TOKEN_TTL]}

\* An expiry test that already fails at the instant exp.
Expired_AtExp(t, payload) == t >= payload.exp

\* Date.now() > payload.exp
Expired(t, payload) == t > payload.exp

\* The checks of /protected, in the handler's order
CheckToken(payload, signature, ip, t) ==
    IF payload = NoPayload \/ signature = << >>
    THEN Error("protected", 400, "Missing token")
    ELSE IF verifySignature(payload, signature) = "throws"
    THEN Error("protected", 500, "Input buffers must have the same byte length")
    ELSE IF verifySignature(payload, signature) = "false"
    THEN Error("protected", 403, "Invalid signature")
    ELSE IF Expired(t, payload)
    THEN Error("protected", 403, "Token expired")
    ELSE IF payload.ip # ip
    THEN Error("protected", 403, "IP mismatch")
    ELSE Reply("protected", 200, "success", << >>)

\* app.post("/protected")
Protected(payload, signature, ip) ==
    /\ Idle
    /\ obs' = [ep |-> "protected", payload |-> payload,
               signature |-> signature, ip |-> ip]
    /\ resp' = CheckToken(payload, signature, ip, now)
    /\ UNCHANGED <<now, SECRET, SECRET_VERSION, nextRotation, usedNonces,
                   trustMemory, issued, solved, held>>
    /\ UNCHANGED <<memVars, redisVars, clientVars>>

\* The client receives the response; it keeps a token it is given.
Deliver ==
    /\ ~Idle
    /\ held' = IF resp.kind = "token"
               THEN [payload |-> resp.data.payload,
                     signature |-> resp.data.signature,
                     at |-> now, stale |-> FALSE]
               ELSE held
    /\ resp' = Reply("none", 0, "none", << >>)
    /\ obs' = NoObs
    /\ UNCHANGED <<now, SECRET, SECRET_VERSION, nextRotation, usedNonces,
                   trustMemory, issued, solved>>
    /\ UNCHANGED <<memVars, redisVars, clientVars>>

\* The hashes a client submits with (f, n, c): none, the digest, another one.
Hashes(f, n, c) ==
    {<< >>, sha256(PowInput(f, n, c)), sha256(PowInput(f, n, c + 1))}

(***************************************************************************)
(* src/5.js, the whole server: every endpoint, the rotation timer and the  *)
(* clock, with requests of every shape (fields present or missing, right   *)
(* and wrong hashes, held and made-up tokens) from a browser.              *)
(***************************************************************************)
Next ==
    \/ \E t \in Times : Tick(t)
    \/ Rotate
    \/ \E f \in Fingerprints \cup {0} : Challenge(f)
    \/ \E f \in Fingerprints \cup {0}, n \in Nonces \cup {0},
          c \in Counters \cup {-1}, ua \in Browsers, ip \in IPs :
         \E h \in Hashes(f, n, c) : Verify(f, n, c, h, ua, ip)
    \/ \E p \in Payloads : \E s \in Signatures(p) : \E ip \in IPs :
         Protected(p, s, ip)
    \/ Deliver

Spec == Init /\ [][Next]_vars

(***************************************************************************)
(* src/5.js, the token side: clients that solve and redeem without asking  *)
(* for a challenge first (the server does not require one).                *)
(***************************************************************************)
NextToken ==
    \/ \E t \in Times : Tick(t)
    \/ Rotate
    \/ \E f \in Fingerprints \cup {0}, n \in Nonces \cup {0},
          c \in Counters \cup {-1}, ua \in Browsers, ip \in IPs :
         \E h \in Hashes(f, n, c) : Verify(f, n, c, h, ua, ip)
    \/ \E p \in Payloads : \E s \in Signatures(p) : \E ip \in IPs :
         Protected(p, s, ip)
    \/ Deliver

SpecToken == Init /\ [][NextToken]_vars

(***************************************************************************)
(*        src/unnamed/part_001: the server with in-memory challenges       *)
(*                                                                         *)
(* The risk is counted in tenths (0.5 is 5), so that the comparison with   *)
(* 0.7 is exact.  express-rate-limit (120 requests a minute) is outside    *)
(* the handlers and is not modelled.                                       *)
(***************************************************************************)
SECRET_M == 7
CHALLENGE_TTL_M == 60000
TOKEN_TTL_M == 120000
DIFFICULTY_M == 4
RISK_LIMIT_M == 7

\* The instants of the in-memory server: around both lifetimes.
TimesM == {0, 1, CHALLENGE_TTL_M, CHALLENGE_TTL_M + 1, TOKEN_TTL_M + 1}

\* Challenges are the integers 1..MaxChallenge, in the order of issue; the
\* nonces a client tries are chosen so that some solve a challenge and some
\* do not, and one nonce solves two challenges.
Challenges == 1..MaxChallenge
NoncesM == 2..(MaxNonce + 1)

\* req.body.signals: the client's user agent and whether it reports cpu and
\* memory; the three have risk 0, 0.7 and 1.0
SignalsM ==
    {[ua |-> "Mozilla/5.0", cpu |-> TRUE, memory |-> TRUE],
     [ua |-> "HeadlessChrome", cpu |-> TRUE, memory |-> FALSE],
     [ua |-> "python-requests HeadlessChrome", cpu |-> TRUE, memory |-> TRUE]}

\* function computeRisk(signals, req), in tenths
computeRiskM(signals) ==
    (IF signals.ua \in {"HeadlessChrome", "python-requests HeadlessChrome"}
     THEN 5 ELSE 0)
    + (IF signals.ua \in {"curl/8.5", "python-requests HeadlessChrome"}
       THEN 5 ELSE 0)
    + (IF ~signals.cpu THEN 2 ELSE 0)
    + (IF ~signals.memory THEN 2 ELSE 0)

\* challenge + nonce, the string the client hashes
PowInputM(challenge, nonce) == <<challenge, nonce>>

NoPayloadM == [ip |-> 0, timestamp |-> 0]

StringifyM(token) == <<token.ip, token.timestamp>>

signM(token) == Hmac(SECRET_M, StringifyM(token))

\* function verifySignature(payload, signature): sign() throws on a missing
\* payload, Buffer.from() on a missing signature, timingSafeEqual on lengths
verifySignatureM(token, signature) ==
    IF token = NoPayloadM \/ signature = << >>
    THEN "throws"
    ELSE timingSafeEqual(signature, signM(token))

\* A delete that leaves the challenge in the map.
Consume_Keep(map, challenge) == map

\* activeChallenges.delete(challenge)
Consume(map, challenge) == [c \in DOMAIN map \ {challenge} |-> map[c]]

\* crypto.randomBytes(16).toString("hex"): a challenge never returned before
FreshChallenge == {c \in Challenges : c = Cardinality(DOMAIN issued) + 1}

\* app.get("/challenge")
ChallengeM ==
    /\ Idle
    /\ \E challenge \in FreshChallenge :
         /\ activeChallenges' =
              [c \in DOMAIN activeChallenges \cup {challenge} |->
                 IF c = challenge THEN now ELSE activeChallenges[c]]
         /\ issued' = [c \in DOMAIN issued \cup {challenge} |->
                         IF c = challenge
                         THEN [at |-> now, tried |-> FALSE]
                         ELSE issued[c]]
         /\ resp' = Reply("challenge", 200, "challenge",
                          [challenge |-> challenge,
                           difficulty |-> DIFFICULTY_M])
    /\ obs' = [ep |-> "challenge"]
    /\ UNCHANGED <<now, usedNoncesM, solved, held>>
    /\ UNCHANGED <<nexusVars, redisVars, clientVars>>

\* app.post("/verify")
VerifyM(challenge, nonce, hash, signals, ip) ==
    LET testHash == sha256(PowInputM(challenge, nonce))
        risk == computeRiskM(signals)
        tokenPayload == [ip |-> ip, timestamp |-> now]
    IN
    /\ Idle
    /\ obs' = [ep |-> "verify", challenge |-> challenge, nonce |-> nonce,
               solvedBefore |-> challenge \in solved,
               first |-> challenge \in DOMAIN issued
                         /\ ~issued[challenge].tried,
               hash |-> hash,
               rightHash |-> hash = testHash]
    /\ issued' = [c \in DOMAIN issued |->
                    IF c = challenge THEN [issued[c] EXCEPT !.tried = TRUE]
                    ELSE issued[c]]
    /\ IF challenge \notin DOMAIN activeChallenges
       THEN /\ resp' = Error("verify", 403, "Invalid challenge")
            /\ UNCHANGED <<activeChallenges, usedNoncesM, solved>>
       ELSE IF now - activeChallenges[challenge] > CHALLENGE_TTL_M
       THEN /\ resp' = Error("verify", 403, "Challenge expired")
            /\ UNCHANGED <<activeChallenges, usedNoncesM, solved>>
       ELSE IF testHash # hash \/ ~StartsWithZeros(hash, DIFFICULTY_M)
       THEN /\ resp' = Error("verify", 403, "Invalid PoW")
            /\ UNCHANGED <<activeChallenges, usedNoncesM, solved>>
       ELSE IF nonce \in usedNoncesM
       THEN /\ resp' = Error("verify", 403, "Replay detected")
            /\ UNCHANGED <<activeChallenges, usedNoncesM, solved>>
       ELSE /\ usedNoncesM' = usedNoncesM \cup {nonce}
            /\ activeChallenges' = Consume(activeChallenges, challenge)
            /\ solved' = solved \cup {challenge}
            /\ IF risk > RISK_LIMIT_M
               THEN resp' = Error("verify", 403, "High risk")
               ELSE resp' = Reply("verify", 200, "token",
                                  [payload |-> tokenPayload,
                                   signature |-> signM(tokenPayload)])
    /\ UNCHANGED <<now, held>>
    /\ UNCHANGED <<nexusVars, redisVars, clientVars>>

\* What a client of the in-memory server can present: no token, the one it
\* holds, and one it makes up (the one it holds with a later timestamp).
PayloadsM ==
    {NoPayloadM,
     IF held = NoToken
     THEN [ip |-> 1, timestamp |-> now]
     ELSE held.payload,
     IF held = NoToken
     THEN [ip |-> 2, timestamp |-> now]
     ELSE [held.payload EXCEPT !.timestamp = @ + TOKEN_TTL_M]}

GuessM(token) == Hmac(0, StringifyM(token))

SignaturesM(token) ==
    {<< >>, held.signature, GuessM(token),
     SubSeq(GuessM(token), 1, Len(GuessM(token)) - 1)}

\* The checks of /protected, in the handler's order
CheckTokenM(token, signature, ip, t) ==
    IF verifySignatureM(token, signature) = "throws"
    THEN Error("protected", 500, "verifySignature throws")
    ELSE IF verifySignatureM(token, signature) = "false"
    THEN Error("protected", 403, "Invalid signature")
    ELSE IF t - token.timestamp > TOKEN_TTL_M
    THEN Error("protected", 403, "Token expired")
    ELSE IF token.ip # ip
    THEN Error("protected", 403, "IP mismatch")
    ELSE Reply("protected", 200, "success", << >>)

\* app.post("/protected")
ProtectedM(token, signature, ip) ==
    /\ Idle
    /\ obs' = [ep |-> "protected", payload |-> token,
               signature |-> signature, ip |-> ip]
    /\ resp' = CheckTokenM(token, signature, ip, now)
    /\ UNCHANGED <<now, activeChallenges, usedNoncesM, issued, solved, held>>
    /\ UNCHANGED <<nexusVars, redisVars, clientVars>>

\* The hashes a client submits with (challenge, nonce): none, the digest,
\* another digest.
HashesM(challenge, nonce) ==
    {<< >>, sha256(PowInputM(challenge, nonce)),
     sha256(PowInputM(challenge, nonce + 1))}

(***************************************************************************)
(* src/unnamed/part_001, the whole server: every endpoint and the clock,   *)
(* with challenges issued and not, nonces that solve and that do not,      *)
(* signals of low and high risk, held and made-up tokens.                  *)
(***************************************************************************)
NextMem ==
    \/ \E t \in TimesM : Tick(t)
    \/ ChallengeM
    \/ \E challenge \in Challenges, nonce \in NoncesM, signals \in SignalsM,
          ip \in IPs :
         \E hash \in HashesM(challenge, nonce) :
           VerifyM(challenge, nonce, hash, signals, ip)
    \/ \E token \in PayloadsM : \E s \in SignaturesM(token) : \E ip \in IPs :
         ProtectedM(token, s, ip)
    \/ Deliver

SpecMem == Init /\ [][NextMem]_vars

(***************************************************************************)
(*        src/unnamed/part_002: the server backed by a Redis store         *)
(*                                                                         *)
(* Every `await redis.x(...)` sends a command on the one connection and    *)
(* suspends the handler; the store executes the commands in the order they *)
(* were sent and each reply resumes its handler, which runs to its next    *)
(* await or to its response.  queue holds the suspended requests in the    *)
(* order of their pending commands.  A key set with EX is gone from the    *)
(* instant its lifetime has passed.  express-rate-limit is outside the     *)
(* handlers and is not modelled.                                           *)
(***************************************************************************)
SECRET_R == 9
CHALLENGE_TTL_R == 60
TOKEN_TTL_R == 120
BASE_DIFFICULTY_R == 4
MAX_DIFFICULTY_R == 7
RATE_STEP_R == 50
RATE_TTL_R == 60
Nil == 0
NoExpiry == -1

\* The instants of the store-backed server: around the lifetime of a key
TimesR == {0, CHALLENGE_TTL_R * 1000 - 1, CHALLENGE_TTL_R * 1000}

SignalsR ==
    {[ua |-> "Mozilla/5.0", cpu |-> TRUE, memory |-> TRUE],
     [ua |-> "python-requests HeadlessChrome", cpu |-> TRUE, memory |-> TRUE]}

ChallengesR == 1..MaxChallengeR

\* crypto.randomBytes(16).toString("hex"): a challenge never returned before
FreshChallengeR == {c \in ChallengesR : c = Cardinality(DOMAIN issued) + 1}

ChallengeKey(challenge) == <<"challenge", challenge>>
NonceKey(nonce) == <<"nonce", nonce>>
RateKey(ip) == <<"rate", ip>>

(***************************** the store ***********************************)
\* redis.get(key): the value, or null
Get(store, key) == IF key \in DOMAIN store THEN store[key].val ELSE Nil

\* redis.set(key, value, "EX", seconds)
SetEx(store, key, value, seconds, t) ==
    [k \in DOMAIN store \cup {key} |->
       IF k = key THEN [val |-> value, exp |-> t + seconds * 1000]
       ELSE store[k]]

\* redis.exists(key)
Exists(store, key) == key \in DOMAIN store

\* redis.del(key)
Del(store, key) == [k \in DOMAIN store \ {key} |-> store[k]]

\* redis.incr(key): a missing key counts from 0 and gets no lifetime
Incr(store, key) ==
    [k \in DOMAIN store \cup {key} |->
       IF k # key THEN store[k]
       ELSE IF key \in DOMAIN store
       THEN [store[key] EXCEPT !.val = @ + 1]
       ELSE [val |-> 1, exp |-> NoExpiry]]

\* redis.expire(key, seconds)
Expire(store, key, seconds, t) ==
    IF key \in DOMAIN store
    THEN [store EXCEPT ![key].exp = t + seconds * 1000]
    ELSE store

\* The keys whose lifetime has not passed at t
Purge(store, t) ==
    [k \in {x \in DOMAIN store :
              store[x].exp = NoExpiry \/ store[x].exp > t} |-> store[k]]

(**************************** the handlers *********************************)
\* async function dynamicDifficulty(ip), after its await
dynamicDifficulty(requestCount) ==
    Min(MAX_DIFFICULTY_R, BASE_DIFFICULTY_R + (requestCount \div RATE_STEP_R))

\* function computeRisk(signals, req), in tenths
computeRiskR(signals) == computeRiskM(signals)

StringifyR(token) == <<token.ip, token.issued>>

signR(token) == Hmac(SECRET_R, StringifyR(token))

NoPayloadR == [ip |-> 0, issued |-> 0]

\* A binding test that only asks for the challenge to be stored.
InvalidChallenge_AnyIp(storedIp, ip) == storedIp = Nil

\* !storedIp || storedIp !== ip
InvalidChallenge(storedIp, ip) == storedIp = Nil \/ storedIp # ip

\* A request suspended on the store: its fields, the await it is at, and
\* the locals it carries over the await
Request(ep, pc, ip, challenge, nonce, hash, signals) ==
    [ep |-> ep, pc |-> pc, ip |-> ip, challenge |-> challenge,
     nonce |-> nonce, hash |-> hash, signals |-> signals,
     difficulty |-> 0, token |-> NoPayloadR]

\* The handler at the head of the queue gets its reply
AtAwait(ep, pc) ==
    /\ Idle
    /\ queue # << >>
    /\ Head(queue).ep = ep
    /\ Head(queue).pc = pc

\* ... and suspends again on its next command
Await(request, pc) == Append(Tail(queue), [request EXCEPT !.pc = pc])

\* What the properties need to know of a /verify that is answered
ObsVerify(request) ==
    [ep |-> "verify", call |-> request,
     again |-> <<request.challenge, request.nonce, request.hash,
                 request.ip>> \in solved,
     rightHash |->
       request.hash = sha256(PowInputM(request.challenge, request.nonce))]

\* The clock moves and the store drops the keys whose lifetime has passed
TickR(t) ==
    /\ Idle
    /\ t > now
    /\ now' = t
    /\ redis' = Purge(redis, t)
    /\ UNCHANGED <<queue, issued, solved, held, obs, resp>>
    /\ UNCHANGED <<nexusVars, memVars, clientVars>>

\* app.get("/challenge"), up to `await dynamicDifficulty(ip)`
ChallengeR(ip) ==
    /\ Idle
    /\ Len(queue) < MaxInflight
    /\ queue' = Append(queue,
                       Request("challenge", "rate", ip, 0, 0, << >>,
                               [ua |-> "", cpu |-> FALSE, memory |-> FALSE]))
    /\ UNCHANGED <<now, redis, issued, solved, held, obs, resp>>
    /\ UNCHANGED <<nexusVars, memVars, clientVars>>

\* app.get("/challenge"), from the difficulty to `await redis.set(...)`
ChallengeR_Rate ==
    /\ AtAwait("challenge", "rate")
    /\ LET request == Head(queue) IN
       \E challenge \in FreshChallengeR :
         /\ queue' = Await([request EXCEPT
                              !.challenge = challenge,
                              !.difficulty = dynamicDifficulty(
                                  Get(redis, RateKey(request.ip)))], "set")
         /\ issued' = [c \in DOMAIN issued \cup {challenge} |->
                         IF c = challenge
                         THEN [ip |-> request.ip, at |-> now]
                         ELSE issued[c]]
    /\ UNCHANGED <<now, redis, solved, held, obs, resp>>
    /\ UNCHANGED <<nexusVars, memVars, clientVars>>

\* app.get("/challenge"), from the stored challenge to the response
ChallengeR_Set ==
    /\ AtAwait("challenge", "set")
    /\ LET request == Head(queue) IN
         /\ redis' = SetEx(redis, ChallengeKey(request.challenge), request.ip,
                           CHALLENGE_TTL_R, now)
         /\ resp' = Reply("challenge", 200, "challenge",
                          [challenge |-> request.challenge,
                           difficulty |-> request.difficulty])
    /\ queue' = Tail(queue)
    /\ obs' = [ep |-> "challenge"]
    /\ UNCHANGED <<now, issued, solved, held>>
    /\ UNCHANGED <<nexusVars, memVars, clientVars>>

\* app.post("/verify"), up to `await redis.get("challenge:" + challenge)`
VerifyR(challenge, nonce, hash, signals, ip) ==
    /\ Idle
    /\ Len(queue) < MaxInflight
    /\ queue' = Append(queue,
                       Request("verify", "get", ip, challenge, nonce, hash,
                               signals))
    /\ UNCHANGED <<now, redis, issued, solved, held, obs, resp>>
    /\ UNCHANGED <<nexusVars, memVars, clientVars>>

\* app.post("/verify"), the binding check, up to `await dynamicDifficulty(ip)`
VerifyR_Get ==
    /\ AtAwait("verify", "get")
    /\ LET request == Head(queue)
           storedIp == Get(redis, ChallengeKey(request.challenge))
       IN IF InvalidChallenge(storedIp, request.ip)
          THEN /\ resp' = Error("verify", 403, "Invalid challenge")
               /\ obs' = ObsVerify(request)
               /\ queue' = Tail(queue)
          ELSE /\ queue' = Await(request, "rate")
               /\ UNCHANGED <<obs, resp>>
    /\ UNCHANGED <<now, redis, issued, solved, held>>
    /\ UNCHANGED <<nexusVars, memVars, clientVars>>

\* app.post("/verify"), the proof-of-work check, up to `await redis.exists`
VerifyR_Rate ==
    /\ AtAwait("verify", "rate")
    /\ LET request == Head(queue)
           difficulty == dynamicDifficulty(Get(redis, RateKey(request.ip)))
           testHash == sha256(PowInputM(request.challenge, request.nonce))
       IN IF testHash # request.hash
             \/ ~StartsWithZeros(request.hash, difficulty)
          THEN /\ resp' = Error("verify", 403, "Invalid PoW")
               /\ obs' = ObsVerify(request)
               /\ queue' = Tail(queue)
          ELSE /\ queue' = Await([request EXCEPT !.difficulty = difficulty],
                                 "exists")
               /\ UNCHANGED <<obs, resp>>
    /\ UNCHANGED <<now, redis, issued, solved, held>>
    /\ UNCHANGED <<nexusVars, memVars, clientVars>>

\* app.post("/verify"), the replay check, up to `await redis.set(replayKey)`
VerifyR_Exists ==
    /\ AtAwait("verify", "exists")
    /\ LET request == Head(queue) IN
       IF Exists(redis, NonceKey(request.nonce))
       THEN /\ resp' = Error("verify", 403, "Replay detected")
            /\ obs' = ObsVerify(request)
            /\ queue' = Tail(queue)
       ELSE /\ queue' = Await(request, "set")
            /\ UNCHANGED <<obs, resp>>
    /\ UNCHANGED <<now, redis, issued, solved, held>>
    /\ UNCHANGED <<nexusVars, memVars, clientVars>>

\* app.post("/verify"), the replay key is set, up to `await redis.del(...)`
VerifyR_Set ==
    /\ AtAwait("verify", "set")
    /\ redis' = SetEx(redis, NonceKey(Head(queue).nonce), 1, CHALLENGE_TTL_R,
                      now)
    /\ queue' = Await(Head(queue), "del")
    /\ UNCHANGED <<now, issued, solved, held, obs, resp>>
    /\ UNCHANGED <<nexusVars, memVars, clientVars>>

\* app.post("/verify"), the challenge is deleted; the risk check and the
\* token, up to `await redis.incr("rate:" + ip)`
VerifyR_Del ==
    /\ AtAwait("verify", "del")
    /\ redis' = Del(redis, ChallengeKey(Head(queue).challenge))
    /\ LET request == Head(queue)
           risk == computeRiskR(request.signals)
           tokenPayload == [ip |-> request.ip, issued |-> now]
       IN IF risk > RISK_LIMIT_M
          THEN /\ resp' = Error("verify", 403, "High risk")
               /\ obs' = ObsVerify(request)
               /\ queue' = Tail(queue)
          ELSE /\ queue' = Await([request EXCEPT !.token = tokenPayload],
                                 "incr")
               /\ UNCHANGED <<obs, resp>>
    /\ UNCHANGED <<now, issued, solved, held>>
    /\ UNCHANGED <<nexusVars, memVars, clientVars>>

\* app.post("/verify"), the rate counter, up to `await redis.expire(...)`
VerifyR_Incr ==
    /\ AtAwait("verify", "incr")
    /\ redis' = Incr(redis, RateKey(Head(queue).ip))
    /\ queue' = Await(Head(queue), "expire")
    /\ UNCHANGED <<now, issued, solved, held, obs, resp>>
    /\ UNCHANGED <<nexusVars, memVars, clientVars>>

\* app.post("/verify"), the counter's lifetime and the response
VerifyR_Expire ==
    /\ AtAwait("verify", "expire")
    /\ LET request == Head(queue) IN
         /\ redis' = Expire(redis, RateKey(request.ip), RATE_TTL_R, now)
         /\ resp' = Reply("verify", 200, "token",
                          [payload |-> request.token,
                           signature |-> signR(request.token)])
         /\ obs' = ObsVerify(request)
         /\ solved' = solved \cup {<<request.challenge, request.nonce,
                                     request.hash, request.ip>>}
    /\ queue' = Tail(queue)
    /\ UNCHANGED <<now, issued, held>>
    /\ UNCHANGED <<nexusVars, memVars, clientVars>>

\* The client receives the response
DeliverR ==
    /\ ~Idle
    /\ resp' = Reply("none", 0, "none", << >>)
    /\ obs' = NoObs
    /\ UNCHANGED <<now, redis, queue, issued, solved, held>>
    /\ UNCHANGED <<nexusVars, memVars, clientVars>>

\* The nonces a client of the store-backed server tries: one that solves
\* every challenge of the model
NoncesR == {3}

\* The hashes a client of the store-backed server submits: the digest and
\* another digest.
HashesR(challenge, nonce) ==
    {sha256(PowInputM(challenge, nonce)),
     sha256(PowInputM(challenge, nonce + 1))}

(***************************************************************************)
(* src/unnamed/part_002: /challenge and /verify with up to MaxInflight     *)
(* requests suspended on the store at a time, the clock and the store's    *)
(* expiry.                                                                 *)
(***************************************************************************)
NextRedis ==
    \/ \E t \in TimesR : TickR(t)
    \/ \E ip \in IPs : ChallengeR(ip)
    \/ ChallengeR_Rate
    \/ ChallengeR_Set
    \/ \E challenge \in ChallengesR, nonce \in NoncesR, signals \in SignalsR,
          ip \in IPs :
         \E hash \in HashesR(challenge, nonce) :
           VerifyR(challenge, nonce, hash, signals, ip)
    \/ VerifyR_Get
    \/ VerifyR_Rate
    \/ VerifyR_Exists
    \/ VerifyR_Set
    \/ VerifyR_Del
    \/ VerifyR_Incr
    \/ VerifyR_Expire
    \/ DeliverR

SpecRedis == Init /\ [][NextRedis]_vars

(***************************************************************************)
(* src/5.js, the trust ledger: clients with plain and with suspicious user *)
(* agents, two identities, proofs of work of every difficulty, starting    *)
(* fresh or from the ledger a scraper leaves behind after a run of solved  *)
(* submissions in the first millisecond (each with a nonce of its own,     *)
(* outside the nonces the model goes on to use).                           *)
(***************************************************************************)
Scraper == "python-requests HeadlessChrome"

\* The ledger after k solved submissions of identity 1 at time 0 (the test
\* on `before` only makes the evaluation proceed from the first submission
\* to the last)
RECURSIVE Warm(_)
Warm(k) ==
    IF k = 0 THEN << >>
    ELSE LET before == Warm(k - 1) IN
         IF DOMAIN before \subseteq {1}
         THEN Solved(before, 1, Scraper, 0)
         ELSE before

\* ... and the nonces those submissions used
WarmNonces(k) == [n \in {100 + i : i \in 1..k} |-> 0]

\* How many submissions the scraper made before the model starts: none, so
\* many that the next one is throttled, and so many that the next one passes
\* the deny threshold
WarmUps == {0, 32, 33}

FingerprintsTrust == {1, 2}
CountersTrust == {1, 4}
TimesTrust == {0, ROTATE_INTERVAL}

\* Who submits: identity 1 from a browser and from a scraper, identity 2
\* from a browser
ClientsTrust == {<<1, "Mozilla/5.0">>, <<1, Scraper>>, <<2, "Mozilla/5.0">>}

\* Bodies of /verify that lack one required field: fingerprintHash, nonce,
\* counter, hash
MalformedTrust ==
    LET h == sha256(PowInput(1, 1, 1)) IN
    {<<0, 1, 1, h>>, <<1, 0, 1, h>>, <<1, 1, -1, h>>, <<1, 1, 1, << >> >>}

InitTrust ==
    /\ now = 0
    /\ SECRET = 1
    /\ SECRET_VERSION = 1
    /\ nextRotation = ROTATE_INTERVAL
    /\ \E k \in WarmUps :
         /\ trustMemory = Warm(k)
         /\ usedNonces = WarmNonces(k)
    /\ issued = << >>
    /\ solved = {}
    /\ held = NoToken
    /\ obs = NoObs
    /\ resp = Reply("none", 0, "none", << >>)
    /\ activeChallenges = << >>
    /\ usedNoncesM = {}
    /\ engine = "3.js"
    /\ ClientStart
    /\ redis = << >>
    /\ queue = << >>

NextTrust ==
    \/ \E t \in TimesTrust : Tick(t)
    \/ Rotate
    \/ \E f \in FingerprintsTrust \cup {0} : Challenge(f)
    \/ \E client \in ClientsTrust, n \in Nonces, c \in CountersTrust :
         \E h \in Hashes(client[1], n, c) \ {<< >>} :
           Verify(client[1], n, c, h, client[2], 1)
    \/ \E body \in MalformedTrust :
         Verify(body[1], body[2], body[3], body[4], "Mozilla/5.0", 1)
    \/ \E p \in Payloads : Protected(p, Guess(p), 1)
    \/ DeliverR

SpecTrust == InitTrust /\ [][NextTrust]_vars

(***************************************************************************)
(* The difficulty functions of src/5.js and src/unnamed/part_002, applied  *)
(* to pairs of inputs lo <= hi: scores from 0 in steps of a twentieth, and *)
(* rate counters from 0.                                                   *)
(***************************************************************************)
DifficultyInputs == 0..MaxDifficultyInput

InitDifficulty ==
    /\ now = 0
    /\ SECRET = 1
    /\ SECRET_VERSION = 1
    /\ nextRotation = ROTATE_INTERVAL
    /\ usedNonces = << >>
    /\ trustMemory = << >>
    /\ issued = << >>
    /\ solved = {}
    /\ held = NoToken
    /\ \E lo \in DifficultyInputs, hi \in DifficultyInputs :
         /\ lo <= hi
         /\ obs = [ep |-> "difficulty", lo |-> lo, hi |-> hi]
    /\ resp = Reply("none", 0, "none", << >>)
    /\ activeChallenges = << >>
    /\ usedNoncesM = {}
    /\ engine = "3.js"
    /\ ClientStart
    /\ redis = << >>
    /\ queue = << >>

\* src/5.js: the difficulty for the scores lo / 20 and hi / 20
ApplyDifficulty ==
    /\ Idle
    /\ resp' = Reply("difficulty", 200, "nexus",
                     [lo |-> Difficulty(
                                [score |-> obs.lo * (ScoreUnit \div 20)]),
                      hi |-> Difficulty(
                                [score |-> obs.hi * (ScoreUnit \div 20)])])
    /\ UNCHANGED <<now, issued, solved, held, obs>>
    /\ UNCHANGED <<nexusVars, memVars, redisVars, clientVars>>

\* src/unnamed/part_002: the difficulty for the rate counters lo and hi
ApplyDynamicDifficulty ==
    /\ Idle
    /\ resp' = Reply("difficulty", 200, "redis",
                     [lo |-> dynamicDifficulty(obs.lo),
                      hi |-> dynamicDifficulty(obs.hi)])
    /\ UNCHANGED <<now, issued, solved, held, obs>>
    /\ UNCHANGED <<nexusVars, memVars, redisVars, clientVars>>

NextDifficulty ==
    \/ ApplyDifficulty
    \/ ApplyDynamicDifficulty

SpecDifficulty == InitDifficulty /\ [][NextDifficulty]_vars

(***************************************************************************)
(* decayTrust of src/5.js called again and again on one trust state, each  *)
(* call at the reading Date.now() gives: a wall clock, which can be set    *)
(* back between two calls.                                                 *)
(***************************************************************************)
DecayScores == {0, 1, (6 * ScoreUnit) \div 10, (12 * ScoreUnit) \div 10,
                Warm(2)[1].score, 4 * ScoreUnit}
DecayTimes == {0, 1, DECAY_WINDOW \div 2, DECAY_WINDOW, 2 * DECAY_WINDOW}

InitDecay ==
    /\ now \in DecayTimes
    /\ SECRET = 1
    /\ SECRET_VERSION = 1
    /\ nextRotation = ROTATE_INTERVAL
    /\ usedNonces = << >>
    /\ \E score \in DecayScores :
         trustMemory = [f \in {1} |-> [score |-> score, lastSeen |-> now,
                                       requestTimes |-> << >>]]
    /\ issued = << >>
    /\ solved = {}
    /\ held = NoToken
    /\ obs = [ep |-> "none", calls |-> 0]
    /\ resp = Reply("none", 0, "none", << >>)
    /\ activeChallenges = << >>
    /\ usedNoncesM = {}
    /\ engine = "3.js"
    /\ ClientStart
    /\ redis = << >>
    /\ queue = << >>

\* decayTrust(state) when Date.now() reads t
DecayCall(t) ==
    /\ obs.calls < MaxDecayCalls
    /\ now' = t
    /\ trustMemory' = [trustMemory EXCEPT ![1] = decayTrust(@, t)]
    /\ obs' = [ep |-> "decay", calls |-> obs.calls + 1,
               before |-> trustMemory[1].score,
               lastSeen |-> trustMemory[1].lastSeen]
    /\ UNCHANGED <<SECRET, SECRET_VERSION, nextRotation, usedNonces>>
    /\ UNCHANGED <<issued, solved, held, resp, memVars, redisVars, clientVars>>

NextDecay == \E t \in DecayTimes : DecayCall(t)

SpecDecay == InitDecay /\ [][NextDecay]_vars

(***************************************************************************)
(* A burst on src/5.js: one identity with a browser's user agent asks for  *)
(* challenge after challenge and submits solutions.                        *)
(***************************************************************************)
BurstNonce == {n \in 1..MaxBurst : n = Cardinality(DOMAIN issued) + 1}
BurstTimes == {BURST_WINDOW - 1, BURST_WINDOW}
\* The nonce the identity solves: the first it was given
BurstSolved == {n \in Nonces : n <= 1}

NextBurst ==
    \/ \E t \in BurstTimes : Tick(t)
    \/ \E nonce \in BurstNonce : ChallengeWith(1, nonce)
    \/ \E n \in BurstSolved, c \in Counters :
         \E h \in Hashes(1, n, c) \ {<< >>} :
           Verify(1, n, c, h, "Mozilla/5.0", 1)
    \/ DeliverR

SpecBurst == Init /\ [][NextBurst]_vars

(***************************************************************************)
(* computeRisk of src/5.js invoked again and again, for identities whose   *)
(* window is empty or one short of the burst limit.                        *)
(***************************************************************************)
RiskWarmUps == {0, BURST_MAX - 1}
RiskTimes == {BURST_WINDOW, DECAY_WINDOW}

\* No invocation yet
NoRisk == [fingerprintHash |-> 0, ua |-> "", at |-> 0, value |-> 0]

InitRisk ==
    /\ now = 0
    /\ SECRET = 1
    /\ SECRET_VERSION = 1
    /\ nextRotation = ROTATE_INTERVAL
    /\ usedNonces = << >>
    /\ \E k \in RiskWarmUps : trustMemory = Warm(k)
    /\ issued = << >>
    /\ solved = {}
    /\ held = NoToken
    /\ obs = [ep |-> "none", calls |-> 0, last |-> NoRisk, before |-> NoRisk]
    /\ resp = Reply("none", 0, "none", << >>)
    /\ activeChallenges = << >>
    /\ usedNoncesM = {}
    /\ engine = "3.js"
    /\ ClientStart
    /\ redis = << >>
    /\ queue = << >>

\* const risk = computeRisk(req, fingerprintHash)
RiskCall(fingerprintHash, ua) ==
    LET mem2 == computeRisk(trustMemory, fingerprintHash, ua, now) IN
    /\ obs.calls < MaxRiskCalls
    /\ trustMemory' = mem2
    /\ obs' = [ep |-> "risk", calls |-> obs.calls + 1,
               last |-> [fingerprintHash |-> fingerprintHash, ua |-> ua,
                         at |-> now, value |-> mem2[fingerprintHash].score],
               before |-> obs.last]
    /\ UNCHANGED <<now, SECRET, SECRET_VERSION, nextRotation, usedNonces>>
    /\ UNCHANGED <<issued, solved, held, resp, memVars, redisVars, clientVars>>

NextRisk ==
    \/ \E t \in RiskTimes : Tick(t)
    \/ \E f \in FingerprintsTrust, ua \in UserAgents : RiskCall(f, ua)

SpecRisk == InitRisk /\ [][NextRisk]_vars

(***************************************************************************)
(* src/unnamed/part_001 as a server that keeps running: the clock keeps    *)
(* advancing while it can and a request that can be handled is handled.    *)
(***************************************************************************)
SpecMemLive ==
    /\ SpecMem
    /\ WF_vars(\E t \in TimesM : Tick(t))
    /\ WF_vars(NextMem)

(***************************************************************************)
(* The client engines: src/3.js (NexusShield), src/4.js (ASISentinel) and  *)
(* src/unnamed/part_000 (Shield).  Each keeps a score, a count of signals  *)
(* and a set of flags; the checks run as callbacks, in any order and any   *)
(* number of times: environment checks, the canvas digest, mouse events,   *)
(* the timing timer, the worker's reply and its timeout, attestation, and  *)
(* in part_000 the proof-of-work loop.                                     *)
(***************************************************************************)
Engines == {"3.js", "4.js", "part_000"}

\* The name an engine gives to a flag of src/3.js
Flag(name) ==
    IF engine = "3.js" THEN name
    ELSE IF name = "low_behavioral_entropy" THEN "low_entropy_path"
    ELSE IF name = "negative_delta" THEN "negative_time"
    ELSE IF name = "worker_failed" THEN "worker_fail"
    ELSE IF name = "render_error" /\ engine = "part_000" THEN "canvas_error"
    ELSE name

\* A penalize that does not look at the flag set.
penalize_Again(s, flag, weight) ==
    [s EXCEPT !.flags = @ \cup {flag}, !.score = @ + weight]

\* penalize(flag, weight)
penalize(s, flag, weight) ==
    IF flag \notin s.flags
    THEN [s EXCEPT !.flags = @ \cup {flag}, !.score = @ + weight]
    ELSE s

\* reward()
reward(s) == [s EXCEPT !.signals = @ + 1]

\* The penalize calls of one callback, in the order the callback makes them
RECURSIVE penalizeAll(_, _)
penalizeAll(s, calls) ==
    IF calls = << >> THEN s
    ELSE penalizeAll(penalize(s, Head(calls)[1], Head(calls)[2]), Tail(calls))

\* history: the weight of the first penalize call made for each flag
RECURSIVE FirstWeights(_, _)
FirstWeights(first, calls) ==
    IF calls = << >> THEN first
    ELSE LET flag == Head(calls)[1] IN
         FirstWeights(IF flag \in DOMAIN first THEN first
                      ELSE [f \in DOMAIN first \cup {flag} |->
                              IF f = flag THEN Head(calls)[2] ELSE first[f]],
                      Tail(calls))

\* A callback that makes the penalize calls `calls` and then, if rewarded,
\* calls reward()
Callback(calls, rewarded) ==
    /\ rewarded => Shield.signals < MaxSignals
    /\ Shield' = IF rewarded THEN reward(penalizeAll(Shield, calls))
                ELSE penalizeAll(Shield, calls)
    /\ penalized' = FirstWeights(penalized, calls)
    /\ again' = {calls[i][1] : i \in DOMAIN calls} \cap Shield.flags
    /\ UNCHANGED <<now, nexusVars, memVars, redisVars, issued, solved, held,
                   obs, resp, engine>>

\* The call penalize(flag, weight) if the test holds, else no call
When(test, flag, weight) == IF test THEN <<<<Flag(flag), weight>>>> ELSE << >>

\* What the environment checks read from navigator and window
Navigators ==
    [webdriver : BOOLEAN, headless : BOOLEAN, languages : BOOLEAN,
     plugins : BOOLEAN, viewport : BOOLEAN]

InitClient ==
    /\ now = 0
    /\ SECRET = 1
    /\ SECRET_VERSION = 1
    /\ nextRotation = ROTATE_INTERVAL
    /\ usedNonces = << >>
    /\ trustMemory = << >>
    /\ issued = << >>
    /\ solved = {}
    /\ held = NoToken
    /\ obs = NoObs
    /\ resp = Reply("none", 0, "none", << >>)
    /\ activeChallenges = << >>
    /\ usedNoncesM = {}
    /\ redis = << >>
    /\ queue = << >>
    /\ engine \in Engines
    /\ ClientStart

\* environmentChecks(); part_000 does not look at the viewport
environmentChecks(navigator) ==
    /\ Callback(When(navigator.webdriver, "webdriver", 5)
                \o When(navigator.headless, "headless_ua", 5)
                \o When(~navigator.languages, "no_languages", 2)
                \o When(~navigator.plugins, "no_plugins", 2)
                \o When(~navigator.viewport /\ engine # "part_000",
                        "zero_viewport", 3),
                TRUE)
    /\ UNCHANGED responded

\* renderingFingerprint(): the digest is computed, or something throws
renderingFingerprint(thrown) ==
    /\ Callback(When(thrown, "render_error", 3), ~thrown)
    /\ UNCHANGED responded

\* The mousemove listener: `fast` is now - last < 5; window is "short" while
\* there are at most 40 points, else the entropy of the path is "low" or
\* "high"
mousemove(fast, window) ==
    /\ engine # "part_000"
    /\ Callback(When(fast, "impossible_mouse_speed", 2)
                \o When(window = "low", "low_behavioral_entropy", 3),
                window = "high")
    /\ UNCHANGED responded

\* The timer of timingIntegrity(), delta ms after it was set
timingIntegrity(delta) ==
    /\ engine # "part_000"
    /\ Callback(When(delta < 0, "negative_delta", 3)
                \o When(delta < (IF engine = "3.js" THEN 10 ELSE 8),
                        "timer_anomaly", 1),
                TRUE)
    /\ UNCHANGED responded

\* channel.port1.onmessage: the worker has replied
workerReplied ==
    /\ engine # "part_000"
    /\ Shield.signals < MaxSignals
    /\ Shield' = reward([Shield EXCEPT !.workerIntegrity = TRUE])
    /\ responded' = TRUE
    /\ UNCHANGED <<now, nexusVars, memVars, redisVars, issued, solved, held,
                   obs, resp, engine, penalized>>
    /\ again' = {}

\* The 800 ms timer of workerIntegrityCheck(), or its catch block
workerIntegrityCheck(thrown) ==
    /\ engine # "part_000"
    /\ Callback(IF thrown THEN When(TRUE, "worker_error", 3)
                ELSE When(~responded, "worker_failed", 3),
                FALSE)
    /\ UNCHANGED responded

\* requestAttestation(serverChallenge), src/3.js only
requestAttestation(thrown) ==
    /\ engine = "3.js"
    /\ Callback(When(thrown, "attestation_failed", 5), ~thrown)
    /\ UNCHANGED responded

\* The proof-of-work loop of part_000 finds a digest that starts with 000
proofOfWork ==
    /\ engine = "part_000"
    /\ Callback(<< >>, TRUE)
    /\ UNCHANGED responded

NextClient ==
    \/ \E navigator \in Navigators : environmentChecks(navigator)
    \/ \E thrown \in BOOLEAN : renderingFingerprint(thrown)
    \/ \E fast \in BOOLEAN, window \in {"short", "low", "high"} :
         mousemove(fast, window)
    \/ \E delta \in {-1, 8, 9, 250} : timingIntegrity(delta)
    \/ workerReplied
    \/ \E thrown \in BOOLEAN : workerIntegrityCheck(thrown)
    \/ \E thrown \in BOOLEAN : requestAttestation(thrown)
    \/ proofOfWork

SpecClient == InitClient /\ [][NextClient]_vars

(***************************************************************************)
(*                         Properties: src/5.js                            *)
(***************************************************************************)

\* C1: once a /verify submission has passed the PoW checks, every later
\* /verify of the same (fingerprintHash, nonce, counter, hash) is answered
\* 403 'Replay detected', at any later time.
C1_ReplayAlwaysRejected ==
    (obs.ep = "verify" /\ obs.again)
        => (resp.status = 403 /\ resp.error = "Replay detected")

\* C3: /verify issues a token, or answers shadow_throttled, only for a nonce
\* that an earlier /challenge response returned.
C3_OnlyIssuedNonces ==
    (obs.ep = "verify" /\ resp.kind \in {"token", "shadow_throttled"})
        => obs.nonce \in DOMAIN issued

\* C6: a nonce returned by /challenge is not redeemed for a token more than
\* the challenge lifetime after it was issued.
C6_NoLateRedemption ==
    (obs.ep = "verify" /\ resp.kind = "token" /\ obs.nonce \in DOMAIN issued)
        => now - issued[obs.nonce].at <= NONCE_TTL

\* The token the client holds is presented as it was received.
Genuine ==
    /\ obs.ep = "protected"
    /\ held # NoToken
    /\ obs.payload = held.payload
    /\ obs.signature = held.signature

\* C7: a token returned by /verify at time t, presented to /protected by the
\* same requester with no rotation in between, is accepted at t + 1 and is
\* rejected as expired at t + TOKEN_TTL + 1.
C7_TokenRoundTrip ==
    (Genuine /\ obs.ip = held.payload.ip /\ ~held.stale) =>
        /\ now = held.at + 1 => resp.kind = "success"
        /\ now = held.at + TOKEN_TTL + 1 =>
               (resp.status = 403 /\ resp.error = "Token expired")

C7_Witness ==
    /\ Genuine /\ obs.ip = held.payload.ip /\ ~held.stale
    /\ now = held.at + TOKEN_TTL + 1
    /\ resp.error = "Token expired"

\* C8: once the rotation timer has fired since a token was issued, /protected
\* answers 403 'Invalid signature' to it, within TOKEN_TTL and past it.
C8_RotationInvalidates ==
    (Genuine /\ held.stale)
        => (resp.status = 403 /\ resp.error = "Invalid signature")

C8_Witness ==
    /\ Genuine /\ held.stale
    /\ now > held.payload.exp
    /\ resp.error = "Invalid signature"

\* C9: a presented signature string that is not the MAC of the payload under
\* the active secret, whatever its length, is answered 403 'Invalid signature'.
C9_BadSignatureRejected ==
    (/\ obs.ep = "protected"
     /\ obs.payload # NoPayload
     /\ obs.signature # << >>
     /\ obs.signature # sign(obs.payload))
        => (resp.status = 403 /\ resp.error = "Invalid signature")

\* C10 as stated: a correctly signed token is rejected as expired at every
\* time now >= payload.exp, now = payload.exp included.
C10_ExpiredFromExp ==
    (/\ obs.ep = "protected"
     /\ obs.payload # NoPayload
     /\ obs.signature = sign(obs.payload)
     /\ now >= obs.payload.exp)
        => (resp.status = 403 /\ resp.error = "Token expired")

\* C10 as amended: /protected checks signature, then expiry, then identity; a
\* correctly signed token is valid while now <= exp and is rejected as expired
\* at every now > exp.
C10_CheckOrder ==
    (obs.ep = "protected" /\ obs.payload # NoPayload
     /\ Len(obs.signature) = Len(sign(obs.payload))) =>
        /\ obs.signature # sign(obs.payload)
               => resp.error = "Invalid signature"
        /\ (obs.signature = sign(obs.payload) /\ now > obs.payload.exp)
               => resp.error = "Token expired"
        /\ (obs.signature = sign(obs.payload) /\ now <= obs.payload.exp
            /\ obs.payload.ip # obs.ip)
               => resp.error = "IP mismatch"
        /\ (obs.signature = sign(obs.payload) /\ now <= obs.payload.exp
            /\ obs.payload.ip = obs.ip)
               => resp.kind = "success"

C10_Witness ==
    /\ obs.ep = "protected"
    /\ obs.payload # NoPayload
    /\ obs.signature = sign(obs.payload)
    /\ now = obs.payload.exp
    /\ resp.kind = "success"

(***************************************************************************)
(*                  Properties: src/unnamed/part_001                       *)
(***************************************************************************)

\* C4: a challenge whose /verify passed the proof-of-work and replay checks
\* is no longer in activeChallenges, and every later /verify that names it is
\* answered 'Invalid challenge' and is given no token, whether the first one
\* was given a token or was rejected for high risk.
C4_ChallengeSingleUse ==
    /\ \A c \in solved : c \notin DOMAIN activeChallenges
    /\ (obs.ep = "verify" /\ obs.solvedBefore)
         => (resp.error = "Invalid challenge" /\ resp.kind # "token")

\* C4 happens: a challenge whose first /verify was rejected for high risk is
\* named again, with its right digest.
C4_Witness ==
    /\ obs.ep = "verify"
    /\ obs.solvedBefore
    /\ obs.rightHash
    /\ held = NoToken
    /\ resp.error = "Invalid challenge"

\* C6, in-memory half: a /verify that arrives more than CHALLENGE_TTL after
\* its challenge was issued is given no token; it is answered 'Challenge
\* expired' unless the challenge was already consumed.
C6_ExpiredInMemory ==
    (/\ obs.ep = "verify"
     /\ obs.challenge \in DOMAIN issued
     /\ now - issued[obs.challenge].at > CHALLENGE_TTL_M)
        => /\ resp.kind # "token"
           /\ resp.error = IF obs.solvedBefore THEN "Invalid challenge"
                           ELSE "Challenge expired"

C6_ExpiredInMemory_Witness ==
    /\ obs.ep = "verify"
    /\ obs.rightHash
    /\ resp.error = "Challenge expired"

(***************************************************************************)
(*                  Properties: src/unnamed/part_002                       *)
(***************************************************************************)

\* C2: of the /verify requests that carry the same (challenge, nonce, hash)
\* from the same IP, at most one is answered with a token, however their
\* store operations interleave.
C2_AtMostOneToken ==
    ~(obs.ep = "verify" /\ resp.kind = "token" /\ obs.again)

\* C5: a /verify for a challenge issued to another IP is answered 'Invalid
\* challenge' at its first await, and that step leaves the store (challenge
\* entry, replay keys, rate counter) unchanged.
C5_WrongIpRejected ==
    [][(/\ queue # << >>
        /\ Head(queue).ep = "verify"
        /\ Head(queue).challenge \in DOMAIN issued
        /\ issued[Head(queue).challenge].ip # Head(queue).ip
        /\ queue' # queue
        /\ Len(queue') <= Len(queue))
         => (/\ redis' = redis
             /\ queue' = Tail(queue)
             /\ resp'.error = "Invalid challenge")]_vars

\* C5 happens: a /verify with the right digest for a stored challenge comes
\* from another IP than the one the challenge was issued to, and is rejected.
C5_Witness ==
    /\ obs.ep = "verify"
    /\ obs.rightHash
    /\ obs.call.challenge \in DOMAIN issued
    /\ issued[obs.call.challenge].ip # obs.call.ip
    /\ Exists(redis, ChallengeKey(obs.call.challenge))
    /\ resp.error = "Invalid challenge"

(***************************************************************************)
(*                    Properties: trust and difficulty                     *)
(***************************************************************************)

\* C11: the difficulty is non-decreasing in the suspicion measure and stays
\* in the clamp range: in [3, 6] for every score in src/5.js, in [4, 7] for
\* every rate counter in src/unnamed/part_002.
C11_DifficultyClamped ==
    /\ (resp.ep = "difficulty" /\ resp.kind = "nexus") =>
          /\ resp.data.lo <= resp.data.hi
          /\ resp.data.lo \in 3..6
          /\ resp.data.hi \in 3..6
    /\ (resp.ep = "difficulty" /\ resp.kind = "redis") =>
          /\ resp.data.lo <= resp.data.hi
          /\ resp.data.lo \in 4..7
          /\ resp.data.hi \in 4..7

\* C11 happens: a score below 1 gets the base difficulty while a score past
\* the cap gets base + 3.
C11_Witness ==
    /\ resp.ep = "difficulty"
    /\ resp.kind = "nexus"
    /\ obs.hi * (ScoreUnit \div 20) > (DIFFICULTY_CAP + 1) * ScoreUnit
    /\ resp.data.lo = 3
    /\ resp.data.hi = 6

\* C12: for any sequence of decayTrust calls on a trust state, at any clock
\* readings, the score is >= 0 after every call and not above the score
\* before that call.
C12_DecayBounded ==
    obs.ep = "decay" =>
        /\ trustMemory[1].score >= 0
        /\ trustMemory[1].score <= obs.before

\* What does hold of decayTrust: the bounds of C12 at every call whose clock
\* reading is not before the state's lastSeen.
C12_ForwardClock ==
    (obs.ep = "decay" /\ obs.lastSeen <= now) =>
        /\ trustMemory[1].score >= 0
        /\ trustMemory[1].score <= obs.before

\* C13: every read of a score that feeds a decision comes after decayTrust on
\* that state in the same request: when /verify reads the score for the
\* difficulty it enforces, the state's lastSeen is the request time.
C13_DecayBeforeRead ==
    (/\ obs.ep = "verify"
     /\ resp.error \notin {"Malformed request", "Replay detected",
                           "Invalid PoW hash"}) =>
        obs.seen = now

\* A /verify that passed the proof-of-work checks has just been answered
PassedPow ==
    /\ obs.ep = "verify"
    /\ \/ resp.kind \in {"token", "shadow_throttled"}
       \/ resp.error = "High risk entity"

\* C14: a /verify that passes the proof of work with risk > 5 ends in 403
\* 'High risk entity', and one answered shadow_throttled has risk > 3 and
\* not > 5.
C14_HighRiskDenied ==
    /\ (PassedPow /\ obs.risk > DENY_RISK * ScoreUnit) =>
          resp.error = "High risk entity"
    /\ (PassedPow /\ resp.kind = "shadow_throttled") =>
          /\ obs.risk > SOFT_BAN_RISK * ScoreUnit
          /\ obs.risk <= DENY_RISK * ScoreUnit

\* The challenges issued in the last 10 seconds
RecentChallenges == {n \in DOMAIN issued : now - issued[n].at < BURST_WINDOW}

\* C15: a fresh identity with a non-suspicious user agent makes 31 /challenge
\* calls within 10 seconds and then one valid /verify: the risk includes the
\* burst penalty, exceeds 3, and the response is shadow_throttled.
C15_BurstThrottled ==
    (/\ PassedPow
     /\ obs.fingerprintHash = 1
     /\ Cardinality(solved) = 1
     /\ Cardinality(RecentChallenges) > BURST_MAX) =>
        /\ obs.risk > SOFT_BAN_RISK * ScoreUnit
        /\ resp.kind = "shadow_throttled"

\* C16: a /verify rejected with 'Replay detected' leaves trustMemory as it
\* was: no state is created and no score, lastSeen or requestTimes changes.
C16_ReplayLeavesLedger ==
    [][(resp'.ep = "verify" /\ resp'.error = "Replay detected") =>
          trustMemory' = trustMemory]_vars

\* C16 happens: a replay is rejected for an identity the ledger has never
\* seen, and for one whose state is older than the request.
C16_Witness ==
    /\ obs.ep = "verify"
    /\ resp.error = "Replay detected"
    /\ obs.fingerprintHash \notin DOMAIN trustMemory

C16_WitnessStale ==
    /\ obs.ep = "verify"
    /\ resp.error = "Replay detected"
    /\ obs.fingerprintHash \in DOMAIN trustMemory
    /\ trustMemory[obs.fingerprintHash].lastSeen < now
    /\ trustMemory[obs.fingerprintHash].score > 0

\* A /challenge or /verify request has just been answered 400
Malformed(r) == r.status = 400 /\ r.ep \in {"challenge", "verify"}

\* C17 as stated: a /challenge or /verify request with a missing required
\* field is answered 400 and leaves usedNonces, trustMemory, SECRET and
\* SECRET_VERSION as they were.
C17_MalformedNoEffect ==
    [][Malformed(resp') =>
          UNCHANGED <<usedNonces, trustMemory, SECRET, SECRET_VERSION>>]_vars

\* C17, amended: such a request leaves trustMemory, SECRET and SECRET_VERSION
\* as they were, and of usedNonces it removes the entries older than
\* NONCE_TTL and nothing else.
C17_MalformedOnlySweeps ==
    [][Malformed(resp') =>
          /\ UNCHANGED <<trustMemory, SECRET, SECRET_VERSION>>
          /\ DOMAIN usedNonces' \subseteq DOMAIN usedNonces
          /\ \A n \in DOMAIN usedNonces :
               IF now - usedNonces[n] > NONCE_TTL
               THEN n \notin DOMAIN usedNonces'
               ELSE /\ n \in DOMAIN usedNonces'
                    /\ usedNonces'[n] = usedNonces[n]]_vars

\* C17 happens: a request answered 400 swept an expired nonce, and another
\* kept one that had not expired.
C17_Witness ==
    /\ Malformed(resp)
    /\ obs.swept # {}

C17_WitnessKept ==
    /\ Malformed(resp)
    /\ obs.swept = {}
    /\ usedNonces # << >>

\* computeRisk has just been invoked twice in a row with the same signals
\* for the same identity and no time between the two invocations
Repeated ==
    /\ obs.ep = "risk"
    /\ obs.calls >= 2
    /\ obs.before.fingerprintHash = obs.last.fingerprintHash
    /\ obs.before.ua = obs.last.ua
    /\ obs.before.at = obs.last.at

\* The penalty of the invocation that has just returned
LastPenalty ==
    UaPenalty(obs.last.ua)
    + (IF Len(trustMemory[obs.last.fingerprintHash].requestTimes) > BURST_MAX
       THEN ScoreUnit \div 2 ELSE 0)

\* C18 as stated: computeRisk invoked repeatedly with the same signals for
\* the same identity, with no elapsed time, returns the same value on every
\* invocation.
C18_RiskRepeatable == Repeated => obs.last.value = obs.before.value

\* C18, amended: each such invocation returns the value of the invocation
\* before it plus its own penalty, so the values are the same exactly when
\* that penalty is 0.
C18_RiskAccumulates ==
    Repeated => obs.last.value = obs.before.value + LastPenalty

\* C18 happens: a repeated invocation has returned, with a user-agent
\* penalty and the burst penalty in its value.
C18_Witness ==
    /\ Repeated
    /\ LastPenalty > UaPenalty(obs.last.ua)
    /\ UaPenalty(obs.last.ua) > 0

C18_WitnessSame ==
    /\ Repeated
    /\ LastPenalty = 0
    /\ obs.last.value > 0

\* The most computeRisk adds in one request: both user-agent penalties and
\* the burst penalty
MaxPenalty == UaPenalty(Scraper) + ScoreUnit \div 2

C19_WitnessDecay ==
    /\ obs.ep = "challenge"
    /\ resp.kind = "challenge"
    /\ ScoreOf(trustMemory, obs.fingerprintHash) < obs.before

C19_WitnessRejected ==
    /\ obs.ep = "verify"
    /\ resp.error = "PoW difficulty fail"
    /\ obs.before > 0
    /\ now > obs.seen
    /\ ScoreOf(trustMemory, obs.fingerprintHash) = obs.before

\* C20: after every /verify that passes the proof-of-work checks the
\* identity's score is half the risk computeRisk returned, whether the
\* request ended in a token or shadow-throttled.
C20_DiscountAfterSolve ==
    PassedPow =>
        ScoreOf(trustMemory, obs.fingerprintHash) = Discount(obs.risk)

\* What does hold of the discount: it is applied when a token is issued.
C20_DiscountWithToken ==
    (PassedPow /\ resp.kind = "token") =>
        ScoreOf(trustMemory, obs.fingerprintHash) = Discount(obs.risk)

(***************************************************************************)
(*                     Properties: cleanup and issuance                    *)
(***************************************************************************)

\* C21: every TTL-bound record is eventually removed once its TTL has
\* elapsed, whatever the client it was issued to does: in
\* src/unnamed/part_001 a challenge older than CHALLENGE_TTL eventually
\* leaves activeChallenges and a used nonce eventually leaves usedNonces.
C21_EventuallyRemoved ==
    /\ \A c \in Challenges :
         (/\ c \in DOMAIN activeChallenges
          /\ now - activeChallenges[c] > CHALLENGE_TTL_M)
            ~> (c \notin DOMAIN activeChallenges)
    /\ \A n \in NoncesM : (n \in usedNoncesM) ~> (n \notin usedNoncesM)

\* What does hold, in src/5.js: once a /challenge or /verify request has
\* been answered, usedNonces holds no entry older than NONCE_TTL.
C21_SweptOnRequest ==
    (obs.ep \in {"challenge", "verify"} /\ resp.ep \in {"challenge", "verify"}) =>
        \A n \in DOMAIN usedNonces : ~(now - usedNonces[n] > NONCE_TTL)

\* ... and in src/unnamed/part_001 nothing removes a used nonce, and only
\* the verify that solves it removes a challenge.
C21_NeverRemoved ==
    [][/\ usedNoncesM \subseteq usedNoncesM'
       /\ \A c \in DOMAIN activeChallenges :
            c \in DOMAIN activeChallenges' \/ resp'.kind = "token"
               \/ resp'.error = "High risk"]_vars

\* C22: the difficulty /verify enforces is derived from the identity's score
\* as it is at verify time, not the difficulty /challenge returned for the
\* nonce: a submission past the field, replay and hash checks is accepted
\* exactly when its hash starts with BASE_DIFFICULTY + min(3, floor(score))
\* zeros.
C22_DifficultyAtVerify ==
    (/\ obs.ep = "verify"
     /\ resp.error \notin {"Malformed request", "Replay detected",
                           "Invalid PoW hash"}) =>
        (PassedPow <=>
            StartsWithZeros(obs.hash,
                BASE_DIFFICULTY
                + Min(DIFFICULTY_CAP, obs.before \div ScoreUnit)))

\* C22 happens: the score fell between issue and verify, and a hash that
\* does not meet the difficulty /challenge returned is accepted.
C22_Witness ==
    /\ PassedPow
    /\ obs.nonce \in DOMAIN issued
    /\ ~StartsWithZeros(obs.hash, issued[obs.nonce].difficulty)

\* C23: a token is never signed with a half-rotated secret: the v field of
\* every payload /verify issues is the version of the secret its signature
\* was made with, and a step that changes SECRET or SECRET_VERSION replaces
\* the secret and adds exactly 1 to the version.
C23_NoHalfRotation ==
    [][/\ (resp'.ep = "verify" /\ resp'.kind = "token") =>
             /\ resp'.data.payload.v = SECRET_VERSION'
             /\ resp'.data.signature =
                   Hmac(SECRET', Stringify(resp'.data.payload))
             /\ UNCHANGED <<SECRET, SECRET_VERSION>>
       /\ (SECRET' # SECRET \/ SECRET_VERSION' # SECRET_VERSION) =>
             /\ SECRET' # SECRET
             /\ SECRET_VERSION' = SECRET_VERSION + 1]_vars

\* C23 happens: a token is issued after the rotation timer has fired.
C23_Witness ==
    /\ resp.ep = "verify"
    /\ resp.kind = "token"
    /\ resp.data.payload.v > 1
    /\ now >= ROTATE_INTERVAL

\* C24: a token is issued only at the end of a /verify request in which
\* every required field was present, the nonce was not in usedNonces when
\* the replay check ran (absent, or older than NONCE_TTL and so just swept),
\* the recomputed hash equalled the submitted one, the hash met the required
\* difficulty and the risk did not exceed the throttle threshold; and with
\* every token or shadow_throttled answer the nonce has been recorded.
C24_TokenOnlyAfterChecks ==
    [][/\ (resp'.ep = "verify" /\ resp'.kind = "token") =>
             /\ obs'.fingerprintHash # 0
             /\ obs'.nonce # 0
             /\ obs'.counter # -1
             /\ obs'.hash # << >>
             /\ obs'.nonce \in DOMAIN usedNonces =>
                   now - usedNonces[obs'.nonce] > NONCE_TTL
             /\ obs'.hash = sha256(PowInput(obs'.fingerprintHash, obs'.nonce,
                                            obs'.counter))
             /\ StartsWithZeros(obs'.hash,
                   BASE_DIFFICULTY
                   + Min(DIFFICULTY_CAP,
                         ScoreOf(trustMemory, obs'.fingerprintHash)
                            \div ScoreUnit))
             /\ obs'.risk <= SOFT_BAN_RISK * ScoreUnit
       /\ (resp'.ep = "verify" /\ resp'.kind \in {"token", "shadow_throttled"}) =>
             /\ obs'.nonce \in DOMAIN usedNonces'
             /\ usedNonces'[obs'.nonce] = now]_vars

\* C24 happens: a token is issued for a nonce that was used before and has
\* been swept, and a submission is answered shadow_throttled.
C24_Witness ==
    /\ resp.ep = "verify"
    /\ resp.kind = "token"
    /\ obs.nonce \in obs.swept
    /\ obs.nonce \in DOMAIN usedNonces

C24_WitnessThrottled ==
    /\ resp.ep = "verify"
    /\ resp.kind = "shadow_throttled"
    /\ obs.nonce \in DOMAIN usedNonces

\* C25: /verify never answers 'Replay detected' to the first submission made
\* for an issued, unexpired challenge with a correct proof of work, whatever
\* was solved before it (src/unnamed/part_001).
C25_NoFalseReplay ==
    (/\ obs.ep = "verify"
     /\ obs.first
     /\ now - issued[obs.challenge].at <= CHALLENGE_TTL_M
     /\ obs.rightHash
     /\ StartsWithZeros(obs.hash, DIFFICULTY_M)) =>
        resp.error # "Replay detected"

(***************************************************************************)
(*                     Properties: the client engines                      *)
(***************************************************************************)

RECURSIVE SumWeights(_, _)
SumWeights(first, flags) ==
    IF flags = {} THEN 0
    ELSE LET f == CHOOSE x \in flags : TRUE
         IN  first[f] + SumWeights(first, flags \ {f})

\* C26: under any order and repetition of the check callbacks each flag
\* contributes its weight to the score at most once: the score is the sum of
\* the weights with which the flags in the flag set were first penalized,
\* and the score never decreases.
C26_ScoreIsSumOfFlags ==
    [][/\ Shield'.flags = DOMAIN penalized'
       /\ Shield'.score = SumWeights(penalized', Shield'.flags)
       /\ Shield'.score >= Shield.score
       /\ Shield.flags \subseteq Shield'.flags]_vars

\* C26 happens: a callback has run again for flags that were already set,
\* here the timer after a negative delta, and the score counts each of the
\* three flags once.
C26_Witness ==
    /\ DOMAIN penalized =
         {"timer_anomaly", Flag("negative_delta"), Flag("render_error")}
    /\ again = {"timer_anomaly", Flag("negative_delta")}
    /\ Shield.flags = DOMAIN penalized
    /\ Shield.score = 7

=============================================================================
